---- MODULE Spec2Model ----
(***************************************************************************)
(* nekkoOS kernel: the VGA text console driver and the boot sequencer       *)
(* kernel_main of src/kernel/kernel.c, the string library of               *)
(* src/kernel/string.c and the boot-information accessors declared in      *)
(* src/kernel/include/multiboot.h.                                         *)
(*                                                                         *)
(* Three specifications share the state:                                   *)
(*   Spec      an arbitrary caller drives the console API;                 *)
(*   BootSpec  kernel_main runs once, statement by statement;              *)
(*   LibSpec   an arbitrary caller calls the library, one call at a time.  *)
(***************************************************************************)
EXTENDS Integers, Sequences, FiniteSets, TLC

(* ---------------- program constants (kernel.c) ---------------- *)
VGA_WIDTH == 80
VGA_HEIGHT == 25
VGA_COLOR_BLACK == 0
VGA_COLOR_LIGHT_GREY == 7
VGA_COLOR_LIGHT_GREEN == 10
VGA_COLOR_LIGHT_RED == 12
VGA_COLOR_WHITE == 15
(* the values of enum vga_color *)
VgaColors == 0 .. 15
(* A uint32_t that may exceed 2^31 - 1 is held as its two 16-bit halves.   *)
U32(hi, lo) == << hi, lo >>
(* 0x2BADB002, the value kernel_main compares magic with *)
MULTIBOOT_MAGIC == U32(11181, 45058)

(* ---------------- bounds of the model ---------------- *)
(* number of console API calls an arbitrary caller makes under Spec *)
MaxCalls == 3

(* longest string, largest count n and largest buffer handed to the library *)
(* functions under LibSpec                                                   *)
MaxStrLen == 2
MaxCount == 3
MaxMove == 4

(* ---------------- machine arithmetic ---------------- *)
(* size_t is uint32_t (include/types.h:16).  Row, column and cell index   *)
(* stay far below 2^31 - 1, the largest integer TLC holds (it stops with   *)
(* an error on a larger one): the 32-bit wrap is never taken, and size_t   *)
(* arithmetic is written as plain integer arithmetic.                      *)

(* conversion to uint8_t / unsigned char *)
U8(x) == x % 256
(* conversion to uint16_t *)
U16(x) == x % 65536

RECURSIVE BitOr(_, _)
(* a | b on non-negative integers *)
BitOr(a, b) ==
    IF a = 0 THEN b
    ELSE IF b = 0 THEN a
    ELSE (IF a % 2 = 1 \/ b % 2 = 1 THEN 1 ELSE 0) + 2 * BitOr(a \div 2, b \div 2)

(* x & ~(8 - 1) on a size_t: clear the three low bits *)
ClearLow3(x) == x - (x % 8)

(* ---------------- strings ---------------- *)
(* A char buffer is a sequence of char values (signed, -128..127);        *)
(* data[i] of the C code is data[i + 1] here.                              *)
RECURSIVE strlen_from(_, _)
strlen_from(str, len) ==
    IF str[len + 1] # 0 THEN strlen_from(str, len + 1) ELSE len

strlen(str) == strlen_from(str, 0)

(* ---------------- the string library (string.c) ---------------- *)
(* SIZE_MAX, (size_t) -1, as a uint32_t in two halves *)
SIZE_MAX == U32(65535, 65535)

(* a small count as a size_t *)
SizeT(k) == U32(k \div 65536, k % 65536)

(* n - 1 on a size_t: 0 wraps to SIZE_MAX *)
size_dec(n) ==
    IF n[2] > 0 THEN U32(n[1], n[2] - 1)
    ELSE IF n[1] > 0 THEN U32(n[1] - 1, 65535)
    ELSE SIZE_MAX

(* k < n for a small count k and a size_t n *)
Below(k, n) == n[1] > 0 \/ k < n[2]

(* *p = value for the byte at offset addr of the memory object mem; a store *)
(* at an offset outside the object does not land in it                      *)
Poke(mem, addr, value) ==
    IF addr >= 0 /\ addr < Len(mem) THEN [ mem EXCEPT ![addr + 1] = value ] ELSE mem

RECURSIVE strncpy_copy(_, _, _, _, _)
(* while (n-- && ( *dest++ = *src++ )): src[i] goes to offset d while n is   *)
(* not 0 and the character copied is not the terminator; n is decremented   *)
(* by each test, the failing one included                                    *)
strncpy_copy(mem, d, src, i, n) ==
    IF n = SizeT(0) THEN [ mem |-> mem, d |-> d, copied |-> i, n |-> size_dec(n) ]
    ELSE IF src[i + 1] # 0
         THEN strncpy_copy(Poke(mem, d, src[i + 1]), d + 1, src, i + 1, size_dec(n))
         ELSE [ mem |-> Poke(mem, d, 0), d |-> d + 1, copied |-> i + 1, n |-> size_dec(n) ]

(* while (n-- > 0) *dest++ = 0: n stores of a zero from offset d upwards.    *)
(* Stores that stay inside the object mem all land.  When the stores run     *)
(* past its end the behaviour is undefined: `landed` of them, at most those  *)
(* that fit, take effect in the object before the run is stopped.            *)
strncpy_pad(mem, d, n, landed) ==
    LET room == IF d < Len(mem) THEN Len(mem) - d ELSE 0
        overrun == Below(room, n)
        zeros == IF ~overrun THEN n[2] ELSE IF landed < room THEN landed ELSE room
    IN  [ mem |-> [ a \in 1 .. Len(mem) |-> IF a > d /\ a <= d + zeros THEN 0 ELSE mem[a] ],
          padded |-> n,
          overrun |-> overrun ]

(* strncpy(mem + dest, src, n): the memory it leaves, the stores of its two *)
(* loops, and whether it stored past the end of the object                   *)
strncpy(mem, dest, src, n, landed) ==
    LET c == strncpy_copy(mem, dest, src, 0, SizeT(n))
        p == strncpy_pad(c.mem, c.d, c.n, landed)
    IN  [ mem |-> p.mem, copied |-> c.copied, padded |-> p.padded, overrun |-> p.overrun ]

RECURSIVE strncmp_loop(_, _, _, _)
(* while (n-- && *str1 && ( *str1 == *str2 )) { str1++; str2++; }: the       *)
(* offset i both pointers stop at, and n as the last test left it            *)
strncmp_loop(str1, str2, i, n) ==
    IF n = SizeT(0) THEN [ i |-> i, n |-> size_dec(n) ]
    ELSE IF str1[i + 1] # 0 /\ str1[i + 1] = str2[i + 1]
         THEN strncmp_loop(str1, str2, i + 1, size_dec(n))
         ELSE [ i |-> i, n |-> size_dec(n) ]

(* variant of strncmp: the exhausted bound is recognised by n == 0 *)
strncmp_zero_test(str1, str2, n) ==
    LET r == strncmp_loop(str1, str2, 0, n)
    IN  IF r.n = SizeT(0) \/ r.n = SIZE_MAX THEN 0
        ELSE U8(str1[r.i + 1]) - U8(str2[r.i + 1])

(* strncmp, n a size_t *)
strncmp(str1, str2, n) ==
    LET r == strncmp_loop(str1, str2, 0, n)
    IN  IF r.n = SIZE_MAX THEN 0
        ELSE U8(str1[r.i + 1]) - U8(str2[r.i + 1])

(* a pointer returned by strchr: NULL, or str + offset *)
NullPointer == [ null |-> TRUE, offset |-> 0 ]
PointerAt(offset) == [ null |-> FALSE, offset |-> offset ]

RECURSIVE strchr_from(_, _, _)
(* strchr with str advanced by i characters; *str is a char, compared with  *)
(* the int c after the integer promotion                                     *)
strchr_from(str, i, c) ==
    IF str[i + 1] # 0
    THEN IF str[i + 1] = c THEN PointerAt(i) ELSE strchr_from(str, i + 1, c)
    ELSE IF str[i + 1] = c THEN PointerAt(i) ELSE NullPointer

strchr(str, c) == strchr_from(str, 0, c)

RECURSIVE memmove_up(_, _, _, _)
(* while (num--) *d++ = *s++ *)
memmove_up(mem, d, s, num) ==
    IF num = 0 THEN mem
    ELSE memmove_up(Poke(mem, d, mem[s + 1]), d + 1, s + 1, num - 1)

RECURSIVE memmove_down(_, _, _, _)
(* while (num--) *--d = *--s *)
memmove_down(mem, d, s, num) ==
    IF num = 0 THEN mem
    ELSE memmove_down(Poke(mem, d - 1, mem[s]), d - 1, s - 1, num - 1)

(* variant of memmove: the bytes are always copied upwards, as memcpy does *)
memmove_always_up(mem, dest, src, num) == memmove_up(mem, dest, src, num)

(* memmove(mem + dest, mem + src, num): the memory it leaves *)
memmove(mem, dest, src, num) ==
    IF dest < src THEN memmove_up(mem, dest, src, num)
    ELSE memmove_down(mem, dest + num, src + num, num)

(* ---------------- number formatting (string.c) ---------------- *)
(* "0123456789ABCDEF" and "0123456789abcdef", string.c:290 *)
HexChars(uppercase) ==
    IF uppercase
    THEN << 48, 49, 50, 51, 52, 53, 54, 55, 56, 57, 65, 66, 67, 68, 69, 70 >>
    ELSE << 48, 49, 50, 51, 52, 53, 54, 55, 56, 57, 97, 98, 99, 100, 101, 102 >>

(* (value >> (i * 4)) & 0xF of the uint32_t value held as its two halves *)
Nibble(value, i) ==
    IF i >= 4 THEN (value[1] \div (16 ^ (i - 4))) % 16
    ELSE (value[2] \div (16 ^ i)) % 16

(* hex_to_string: buffer[0..10] after the call, "0x", eight digits from the *)
(* most significant nibble down, and the terminator                         *)
hex_to_string(value, uppercase) ==
    << 48, 120 >>
    \o [ k \in 1 .. 8 |-> HexChars(uppercase)[Nibble(value, 8 - k) + 1] ]
    \o << 0 >>

(* "0123456789abcdefghijklmnopqrstuvwxyz", string.c:185 and 218 *)
Digits ==
    << 48, 49, 50, 51, 52, 53, 54, 55, 56, 57,
       97, 98, 99, 100, 101, 102, 103, 104, 105, 106, 107, 108, 109,
       110, 111, 112, 113, 114, 115, 116, 117, 118, 119, 120, 121, 122 >>

(* the characters of seq in reverse order: the loop while (ptr1 < ptr) *)
Reverse(seq) == [ k \in 1 .. Len(seq) |-> seq[Len(seq) + 1 - k] ]

RECURSIVE utoa_digits(_, _)
(* utoa's do-while loop: the digits of value, least significant first *)
utoa_digits(value, base) ==
    LET quotient == value \div base
        digit == Digits[(value - quotient * base) + 1]
    IN  IF quotient # 0 THEN << digit >> \o utoa_digits(quotient, base)
        ELSE << digit >>

(* utoa: the string left in str, terminator included *)
utoa(value, base) ==
    IF base < 2 \/ base > 36 THEN << 0 >>
    ELSE Reverse(utoa_digits(value, base)) \o << 0 >>

(* value / base of C for base > 0: the quotient is truncated towards zero *)
CDiv(value, base) ==
    IF value >= 0 THEN value \div base ELSE -((-value) \div base)

RECURSIVE itoa_digits(_, _, _)
(* itoa's do-while loop: the characters stored, least significant first.    *)
(* The index tmp_value - value * base is negative for a negative value:     *)
(* the read is outside the digit string and finds any character, `stray`.   *)
itoa_digits(value, base, stray) ==
    LET quotient == CDiv(value, base)
        index == value - quotient * base
        digit == IF index >= 0 /\ index < Len(Digits) THEN Digits[index + 1] ELSE stray
    IN  IF quotient # 0 THEN << digit >> \o itoa_digits(quotient, base, stray)
        ELSE << digit >>

(* itoa: the characters left in str, terminator included *)
itoa(value, base, stray) ==
    IF base < 2 \/ base > 36 THEN << 0 >>
    ELSE IF value < 0 /\ base = 10
         THEN << 45 >> \o Reverse(itoa_digits(-value, base, stray)) \o << 0 >>
         ELSE Reverse(itoa_digits(value, base, stray)) \o << 0 >>

(* ---------------- boot information (include/multiboot.h) ---------------- *)
RECURSIVE BitAnd(_, _)
(* a & b on non-negative integers *)
BitAnd(a, b) ==
    IF a = 0 \/ b = 0 THEN 0
    ELSE ((a % 2) * (b % 2)) + 2 * BitAnd(a \div 2, b \div 2)

(* x & y on uint32_t values *)
BitAnd32(x, y) == U32(BitAnd(x[1], y[1]), BitAnd(x[2], y[2]))

(* x + y on uint32_t values: the carry out of bit 31 is lost *)
Add32(x, y) ==
    U32((x[1] + y[1] + ((x[2] + y[2]) \div 65536)) % 65536, (x[2] + y[2]) % 65536)

(* variant of MULTIBOOT_INFO: the masks start at 0x00000002 *)
MULTIBOOT_INFO_from_2(k) == U32(0, 2 ^ (k + 1))

(* the mask of flag bit k, MULTIBOOT_INFO_MEMORY (bit 0) to                 *)
(* MULTIBOOT_INFO_FRAMEBUFFER_INFO (bit 12)                                  *)
MULTIBOOT_INFO(k) == U32(0, 2 ^ k)

(* bool multiboot_check_flag(mbi, flag): the flag is set in mbi->flags *)
multiboot_check_flag(mbi, flag) == BitAnd32(mbi.flags, flag) # U32(0, 0)

(* uint32_t multiboot_get_memory_size(mbi): lower plus upper memory, in KB *)
multiboot_get_memory_size(mbi) == Add32(mbi.mem_lower, mbi.mem_upper)

(* ---------------- VGA helpers ---------------- *)
vga_entry_color(fg, bg) == U8(BitOr(fg, bg * 16))

(* variant of vga_entry: the colour shifted by 4, as vga_entry_color shifts *)
vga_entry_shift4(uc, color) == U16(BitOr(U16(U8(uc)), U16(color * 16)))

(* (uint16_t) uc | (uint16_t) color << 8.  uc is an unsigned char, below   *)
(* 256, so the OR only meets the low byte of the shifted colour; the high  *)
(* byte of the shifted colour passes through.                              *)
vga_entry(uc, color) ==
    LET lo == U16(U8(uc))
        hi == U16(color * 256)
    IN  U16(BitOr(lo, hi % 256) + (hi - (hi % 256)))

(* ---------------- the console ---------------- *)
(* A terminal value t holds the three statics and the cell grid, plus     *)
(* log: the stores << index, entry >> made so far by the call in progress. *)
Cells == 0 .. (VGA_WIDTH * VGA_HEIGHT - 1)

(* Video memory is row-major (index = y * VGA_WIDTH + x); it is held as    *)
(* lines of cells, and vga_buffer[index] is the cell Cell(buf, index).     *)
Cell(buf, index) == buf[index \div VGA_WIDTH][index % VGA_WIDTH]

(* vga_buffer[index] = entry *)
Store(buf, index, entry) ==
    [ buf EXCEPT ![index \div VGA_WIDTH][index % VGA_WIDTH] = entry ]

(* variant of terminal_initialize: the outer loop stops one row early *)
terminal_initialize_short(t) ==
    LET color == vga_entry_color(VGA_COLOR_LIGHT_GREY, VGA_COLOR_BLACK)
        blank == vga_entry(32, color)
    IN  [ row |-> 0, column |-> 0, color |-> color,
          buf |-> [ y \in 0 .. (VGA_HEIGHT - 1) |->
                     [ x \in 0 .. (VGA_WIDTH - 1) |->
                          IF y < VGA_HEIGHT - 1 THEN blank ELSE t.buf[y][x] ] ],
          log |-> t.log ]

(* the statics are reset; the two loops (y < VGA_HEIGHT, x < VGA_WIDTH)    *)
(* store a space under the new attribute at index y * VGA_WIDTH + x        *)
terminal_initialize(t) ==
    LET color == vga_entry_color(VGA_COLOR_LIGHT_GREY, VGA_COLOR_BLACK)
        blank == vga_entry(32, color)
    IN  [ row |-> 0, column |-> 0, color |-> color,
          buf |-> [ y \in 0 .. (VGA_HEIGHT - 1) |->
                     [ x \in 0 .. (VGA_WIDTH - 1) |->
                          IF y < VGA_HEIGHT /\ x < VGA_WIDTH THEN blank ELSE t.buf[y][x] ] ],
          log |-> t.log ]

(* variant of terminal_setcolor: the new attribute is applied to the cells on screen *)
terminal_setcolor_repaints(t, color) ==
    [ t EXCEPT !.color = color,
               !.buf = [ y \in 0 .. (VGA_HEIGHT - 1) |->
                          [ x \in 0 .. (VGA_WIDTH - 1) |->
                               (t.buf[y][x] % 256) + color * 256 ] ] ]

terminal_setcolor(t, color) == [ t EXCEPT !.color = color ]

(* variant of next_row: the wrap to row 0 is missing *)
next_row_unwrapped(row) == row + 1

(* if (++terminal_row == VGA_HEIGHT) terminal_row = 0; *)
next_row(row) ==
    IF row + 1 = VGA_HEIGHT THEN 0 ELSE row + 1

(* variant of putchar_newline: the column is not reset *)
putchar_newline_keeps_column(t) ==
    [ t EXCEPT !.row = next_row(t.row) ]

(* variant of putchar_newline: a newline on the last row scrolls the screen up *)
(* by one line and stays on the last row                                      *)
putchar_newline_scrolls(t) ==
    IF t.row + 1 = VGA_HEIGHT
    THEN [ t EXCEPT !.column = 0,
                    !.buf = [ y \in 0 .. (VGA_HEIGHT - 1) |->
                               IF y + 1 < VGA_HEIGHT
                               THEN t.buf[y + 1]
                               ELSE [ x \in 0 .. (VGA_WIDTH - 1) |-> vga_entry(32, t.color) ] ] ]
    ELSE [ t EXCEPT !.column = 0, !.row = t.row + 1 ]

(* c == '\n' *)
putchar_newline(t) ==
    [ t EXCEPT !.column = 0, !.row = next_row(t.row) ]

(* variant of putchar_return: the cursor goes to the top left corner *)
putchar_return_homes(t) ==
    [ t EXCEPT !.column = 0, !.row = 0 ]

(* c == '\r' *)
putchar_return(t) ==
    [ t EXCEPT !.column = 0 ]

(* variant of tab_stop: rounds up as ALIGN_UP does, (column + 8 - 1) & ~(8 - 1) *)
tab_stop_align_up(column) == ClearLow3(column + 7)

(* (terminal_column + 8) & ~(8 - 1) *)
tab_stop(column) == ClearLow3(column + 8)

(* c == '\t' *)
putchar_tab(t) ==
    LET column == tab_stop(t.column)
    IN  IF column >= VGA_WIDTH
        THEN [ t EXCEPT !.column = 0, !.row = next_row(t.row) ]
        ELSE [ t EXCEPT !.column = column ]

(* variant of putchar_cell: the end of line is noticed one column late *)
putchar_cell_late_wrap(t, c) ==
    LET index == t.row * VGA_WIDTH + t.column
        entry == vga_entry(c, t.color)
        column == t.column + 1
        stored == [ t EXCEPT !.buf = IF index \in Cells
                                      THEN Store(t.buf, index, entry)
                                      ELSE t.buf,
                             !.log = Append(t.log, << index, entry >>) ]
    IN  IF column = VGA_WIDTH + 1
        THEN [ stored EXCEPT !.column = 0, !.row = next_row(t.row) ]
        ELSE [ stored EXCEPT !.column = column ]

(* any other c: store the cell, then advance the cursor.  A store at an   *)
(* index outside the grid would land beyond video memory: it is logged     *)
(* and leaves the grid as it is.                                           *)
putchar_cell(t, c) ==
    LET index == t.row * VGA_WIDTH + t.column
        entry == vga_entry(c, t.color)
        column == t.column + 1
        stored == [ t EXCEPT !.buf = IF index \in Cells
                                      THEN Store(t.buf, index, entry)
                                      ELSE t.buf,
                             !.log = Append(t.log, << index, entry >>) ]
    IN  IF column = VGA_WIDTH
        THEN [ stored EXCEPT !.column = 0, !.row = next_row(t.row) ]
        ELSE [ stored EXCEPT !.column = column ]

terminal_putchar(t, c) ==
    IF c = 10 THEN putchar_newline(t)
    ELSE IF c = 13 THEN putchar_return(t)
    ELSE IF c = 9 THEN putchar_tab(t)
    ELSE putchar_cell(t, c)

(* Sequencing: F applied to the console t, where t is computed first and   *)
(* once (one call completes before the next starts).                       *)
Then(t, F(_)) == CHOOSE r \in { F(u) : u \in { t } } : TRUE

(* the same for a call of two arguments, each computed once *)
Then2(t, n, F(_, _)) == CHOOSE r \in { F(u, m) : u \in { t }, m \in { n } } : TRUE

RECURSIVE write_loop(_, _, _, _)
(* The iterations lo <= i < hi of terminal_write's loop, in order:         *)
(* terminal_putchar(data[i]), which is data[i + 1] of the sequence.  A     *)
(* range of several iterations is run as its first half, then its second   *)
(* half, which keeps the evaluation shallow.                               *)
write_loop(t, data, lo, hi) ==
    IF hi <= lo THEN t
    ELSE IF hi = lo + 1 THEN terminal_putchar(t, data[lo + 1])
    ELSE Then(write_loop(t, data, lo, (lo + hi) \div 2),
              LAMBDA u : write_loop(u, data, (lo + hi) \div 2, hi))

(* for (size_t i = 0; i < size; i++) terminal_putchar(data[i]); *)
terminal_write(t, data, size) ==
    Then2(t, size, LAMBDA u, n : write_loop(u, data, 0, n))

terminal_writestring(t, data) == terminal_write(t, data, strlen(data))

kprintf(t, format) == terminal_writestring(t, format)

(* ---------------- state ---------------- *)
VARIABLES
    terminal_row,      \* static size_t terminal_row
    terminal_column,   \* static size_t terminal_column
    terminal_color,    \* static uint8_t terminal_color
    vga_buffer,        \* the 80x25 cells at VGA_MEMORY
    call,              \* history: the last console call and its arguments
    pre,               \* history: the console state just before that call
    written,           \* history: the stores << index, entry >> of that call, in order
    attr_set,          \* history: argument of the last terminal_setcolor since the
                       \*          last terminal_initialize, -1 when there is none
    ncalls,            \* number of API calls made by the caller of Spec
    pc,                \* kernel_main's position (source line of the next statement)
    magic,             \* kernel_main's first argument
    mboot_info,        \* the boot-information record kernel_main's second argument names
    interrupts,        \* the CPU's interrupt flag
    trace,             \* history: the statements kernel_main has executed
    lib                \* the last call of a library function: its arguments, what
                       \*          it returned and the memory it left

console == << terminal_row, terminal_column, terminal_color, vga_buffer >>
history == << call, pre, written, attr_set >>
boot == << pc, magic, mboot_info, interrupts, trace >>
vars == << console, history, ncalls, boot, lib >>

Cur ==
    [ row |-> terminal_row, column |-> terminal_column, color |-> terminal_color,
      buf |-> vga_buffer, log |-> << >> ]

NoCall == [ op |-> "none", c |-> 0, data |-> << >>, size |-> 0, color |-> 0 ]

(* no library function has been called *)
NoLibCall == [ op |-> "none" ]

(* the console becomes t; the history variables record the call c *)
Commit(t, c) ==
    \E u \in { t } :
    /\ terminal_row' = u.row
    /\ terminal_column' = u.column
    /\ terminal_color' = u.color
    /\ vga_buffer' = u.buf
    /\ written' = u.log
    /\ pre' = [ row |-> terminal_row, column |-> terminal_column,
                color |-> terminal_color, buf |-> vga_buffer ]
    /\ call' = c
    /\ attr_set' = IF c.op = "terminal_setcolor" THEN c.color
                   ELSE IF c.op = "terminal_initialize" THEN -1
                   ELSE attr_set

(* ---------------- inputs of the API caller ---------------- *)
Rep(n, c) == [ i \in 1 .. n |-> c ]

(* char values passed to terminal_putchar: '\t' '\n' '\r' 'A' and 0xC8 (as a *)
(* signed char, -56)                                                         *)
Chars == { 9, 10, 13, 65, -56 }

(* the attribute passed to terminal_setcolor: white on light red, 0xCF *)
Colors == { vga_entry_color(VGA_COLOR_WHITE, VGA_COLOR_LIGHT_RED) }

(* terminated buffers: a full line of 'A', and "\tb" followed by 24 newlines *)
Buffers == { Rep(VGA_WIDTH, 65) \o << 0 >>,
             << 9, 98 >> \o Rep(VGA_HEIGHT - 1, 10) \o << 0 >> }

(* sizes a caller passes with data: all but the last character, the string, *)
(* the string and its terminator                                            *)
Sizes(data) == { strlen(data) - 1, strlen(data), Len(data) }

(* what the video memory holds at power-on is not the kernel's choice *)
InitialBuffers ==
    { [ y \in 0 .. (VGA_HEIGHT - 1) |-> [ x \in 0 .. (VGA_WIDTH - 1) |-> v ] ] :
        v \in { 0, vga_entry(88, 31) } }

InitConsole ==
    /\ terminal_row = 0
    /\ terminal_column = 0
    /\ terminal_color = 0
    /\ vga_buffer \in InitialBuffers
    /\ call = NoCall
    /\ pre = [ row |-> 0, column |-> 0, color |-> 0, buf |-> vga_buffer ]
    /\ written = << >>
    /\ attr_set = -1
    /\ ncalls = 0

Init ==
    /\ InitConsole
    /\ pc = "caller"
    /\ magic = MULTIBOOT_MAGIC
    /\ mboot_info = [ flags |-> 0, mem_lower |-> 0, mem_upper |-> 0 ]
    /\ interrupts = FALSE
    /\ trace = << >>
    /\ lib = NoLibCall

(* ---------------- the console API, called by anyone ---------------- *)
Call_terminal_initialize ==
    /\ ncalls < MaxCalls
    /\ Commit(terminal_initialize(Cur), [ NoCall EXCEPT !.op = "terminal_initialize" ])
    /\ ncalls' = ncalls + 1
    /\ UNCHANGED << boot, lib >>

Call_terminal_setcolor ==
    /\ ncalls < MaxCalls
    /\ \E color \in Colors :
          Commit(terminal_setcolor(Cur, color),
                 [ NoCall EXCEPT !.op = "terminal_setcolor", !.color = color ])
    /\ ncalls' = ncalls + 1
    /\ UNCHANGED << boot, lib >>

Call_terminal_putchar ==
    /\ ncalls < MaxCalls
    /\ \E c \in Chars :
          Commit(terminal_putchar(Cur, c),
                 [ NoCall EXCEPT !.op = "terminal_putchar", !.c = c ])
    /\ ncalls' = ncalls + 1
    /\ UNCHANGED << boot, lib >>

Call_terminal_write ==
    /\ ncalls < MaxCalls
    /\ \E data \in Buffers : \E size \in Sizes(data) :
          Commit(terminal_write(Cur, data, size),
                 [ NoCall EXCEPT !.op = "terminal_write", !.data = data, !.size = size ])
    /\ ncalls' = ncalls + 1
    /\ UNCHANGED << boot, lib >>

Call_terminal_writestring ==
    /\ ncalls < MaxCalls
    /\ \E data \in Buffers :
          Commit(terminal_writestring(Cur, data),
                 [ NoCall EXCEPT !.op = "terminal_writestring", !.data = data,
                                 !.size = strlen(data) ])
    /\ ncalls' = ncalls + 1
    /\ UNCHANGED << boot, lib >>

Next ==
    \/ Call_terminal_initialize
    \/ Call_terminal_setcolor
    \/ Call_terminal_putchar
    \/ Call_terminal_write
    \/ Call_terminal_writestring

Spec == Init /\ [][Next]_vars

(* ---------------- the boot sequencer ---------------- *)
(* kernel.c:172  "Initializing memory management...\n" *)
STR_L172 ==
    << 73, 110, 105, 116, 105, 97, 108, 105, 122, 105, 110, 103, 32, 109, 101, 109, 111, 114,
       121, 32, 109, 97, 110, 97, 103, 101, 109, 101, 110, 116, 46, 46, 46, 10, 0 >>
(* kernel.c:175  "Memory: Lower = " *)
STR_L175 ==
    << 77, 101, 109, 111, 114, 121, 58, 32, 76, 111, 119, 101, 114, 32, 61, 32, 0 >>
(* kernel.c:177  "KB, Upper = " *)
STR_L177 ==
    << 75, 66, 44, 32, 85, 112, 112, 101, 114, 32, 61, 32, 0 >>
(* kernel.c:178  "KB\n" *)
STR_L178 ==
    << 75, 66, 10, 0 >>
(* kernel.c:181  "Memory management initialized.\n" *)
STR_L181 ==
    << 77, 101, 109, 111, 114, 121, 32, 109, 97, 110, 97, 103, 101, 109, 101, 110, 116, 32, 105,
       110, 105, 116, 105, 97, 108, 105, 122, 101, 100, 46, 10, 0 >>
(* kernel.c:186  "Initializing Global Descriptor Table...\n" *)
STR_L186 ==
    << 73, 110, 105, 116, 105, 97, 108, 105, 122, 105, 110, 103, 32, 71, 108, 111, 98, 97, 108,
       32, 68, 101, 115, 99, 114, 105, 112, 116, 111, 114, 32, 84, 97, 98, 108, 101, 46, 46, 46,
       10, 0 >>
(* kernel.c:188  "GDT initialized.\n" *)
STR_L188 ==
    << 71, 68, 84, 32, 105, 110, 105, 116, 105, 97, 108, 105, 122, 101, 100, 46, 10, 0 >>
(* kernel.c:193  "Initializing Interrupt Descriptor Table...\n" *)
STR_L193 ==
    << 73, 110, 105, 116, 105, 97, 108, 105, 122, 105, 110, 103, 32, 73, 110, 116, 101, 114, 114,
       117, 112, 116, 32, 68, 101, 115, 99, 114, 105, 112, 116, 111, 114, 32, 84, 97, 98, 108,
       101, 46, 46, 46, 10, 0 >>
(* kernel.c:195  "IDT initialized.\n" *)
STR_L195 ==
    << 73, 68, 84, 32, 105, 110, 105, 116, 105, 97, 108, 105, 122, 101, 100, 46, 10, 0 >>
(* kernel.c:200  "Initializing interrupt handlers...\n" *)
STR_L200 ==
    << 73, 110, 105, 116, 105, 97, 108, 105, 122, 105, 110, 103, 32, 105, 110, 116, 101, 114,
       114, 117, 112, 116, 32, 104, 97, 110, 100, 108, 101, 114, 115, 46, 46, 46, 10, 0 >>
(* kernel.c:202  "Interrupts initialized.\n" *)
STR_L202 ==
    << 73, 110, 116, 101, 114, 114, 117, 112, 116, 115, 32, 105, 110, 105, 116, 105, 97, 108,
       105, 122, 101, 100, 46, 10, 0 >>
(* kernel.c:214  "nekkoOS Kernel v0.1\n" *)
STR_L214 ==
    << 110, 101, 107, 107, 111, 79, 83, 32, 75, 101, 114, 110, 101, 108, 32, 118, 48, 46, 49, 10,
       0 >>
(* kernel.c:215  "==================\n\n" *)
STR_L215 ==
    << 61, 61, 61, 61, 61, 61, 61, 61, 61, 61, 61, 61, 61, 61, 61, 61, 61, 61, 10, 10, 0 >>
(* kernel.c:220  "ERROR: Invalid multiboot magic number!\n" *)
STR_L220 ==
    << 69, 82, 82, 79, 82, 58, 32, 73, 110, 118, 97, 108, 105, 100, 32, 109, 117, 108, 116, 105,
       98, 111, 111, 116, 32, 109, 97, 103, 105, 99, 32, 110, 117, 109, 98, 101, 114, 33, 10, 0 >>
(* kernel.c:221  "Expected: 0x2BADB002, Got: 0x" *)
STR_L221 ==
    << 69, 120, 112, 101, 99, 116, 101, 100, 58, 32, 48, 120, 50, 66, 65, 68, 66, 48, 48, 50, 44,
       32, 71, 111, 116, 58, 32, 48, 120, 0 >>
(* kernel.c:223  "\n" *)
STR_L223 ==
    << 10, 0 >>
(* kernel.c:228  "Multiboot magic verified.\n" *)
STR_L228 ==
    << 77, 117, 108, 116, 105, 98, 111, 111, 116, 32, 109, 97, 103, 105, 99, 32, 118, 101, 114,
       105, 102, 105, 101, 100, 46, 10, 0 >>
(* kernel.c:231  "\nInitializing kernel subsystems...\n" *)
STR_L231 ==
    << 10, 73, 110, 105, 116, 105, 97, 108, 105, 122, 105, 110, 103, 32, 107, 101, 114, 110, 101,
       108, 32, 115, 117, 98, 115, 121, 115, 116, 101, 109, 115, 46, 46, 46, 10, 0 >>
(* kernel.c:232  "==================================\n" *)
STR_L232 ==
    << 61, 61, 61, 61, 61, 61, 61, 61, 61, 61, 61, 61, 61, 61, 61, 61, 61, 61, 61, 61, 61, 61,
       61, 61, 61, 61, 61, 61, 61, 61, 61, 61, 61, 61, 10, 0 >>
(* kernel.c:248  "\nKernel initialization complete!\n" *)
STR_L248 ==
    << 10, 75, 101, 114, 110, 101, 108, 32, 105, 110, 105, 116, 105, 97, 108, 105, 122, 97, 116,
       105, 111, 110, 32, 99, 111, 109, 112, 108, 101, 116, 101, 33, 10, 0 >>
(* kernel.c:249  "===============================\n" *)
STR_L249 ==
    << 61, 61, 61, 61, 61, 61, 61, 61, 61, 61, 61, 61, 61, 61, 61, 61, 61, 61, 61, 61, 61, 61,
       61, 61, 61, 61, 61, 61, 61, 61, 61, 10, 0 >>
(* kernel.c:252  "\nSystem ready. Entering idle loop...\n" *)
STR_L252 ==
    << 10, 83, 121, 115, 116, 101, 109, 32, 114, 101, 97, 100, 121, 46, 32, 69, 110, 116, 101,
       114, 105, 110, 103, 32, 105, 100, 108, 101, 32, 108, 111, 111, 112, 46, 46, 46, 10, 0 >>
(* kernel.c:265  "System halted.\n" *)
STR_L265 ==
    << 83, 121, 115, 116, 101, 109, 32, 104, 97, 108, 116, 101, 100, 46, 10, 0 >>

(* variant of init_memory: the memory line is printed without testing bit 0 *)
init_memory_unguarded(t, mboot) ==
    kprintf(kprintf(kprintf(kprintf(kprintf(t, STR_L172), STR_L175), STR_L177), STR_L178),
            STR_L181)

init_memory(t, mboot) ==
    LET t1 == kprintf(t, STR_L172)
        t2 == IF mboot.flags % 2 = 1
              THEN kprintf(kprintf(kprintf(t1, STR_L175), STR_L177), STR_L178)
              ELSE t1
    IN  kprintf(t2, STR_L181)

init_gdt(t) == kprintf(kprintf(t, STR_L186), STR_L188)

init_idt(t) == kprintf(kprintf(t, STR_L193), STR_L195)

init_interrupts(t) == kprintf(kprintf(t, STR_L200), STR_L202)

(* hand-off values: the expected magic, 0xDEADBEEF, 0 and 0x2BADB003 *)
Magics == { MULTIBOOT_MAGIC, U32(57005, 48879), U32(0, 0), U32(11181, 45059) }

(* boot-information records: flags with bit 0 clear or set, with other bits *)
BootInfos ==
    { [ flags |-> f, mem_lower |-> 640, mem_upper |-> 65536 ] : f \in { 0, 1, 64, 65 } }

BootInit ==
    /\ InitConsole
    /\ pc = "L208"
    /\ magic \in Magics
    /\ mboot_info \in BootInfos
    /\ interrupts \in BOOLEAN
    /\ trace = << >>
    /\ lib = NoLibCall

(* a statement without a recorded argument *)
Did(stmt) == [ stmt |-> stmt, arg |-> << >> ]

(* one statement of kernel_main: control goes from line `from` to line `to`, *)
(* the console becomes t, and the statement is recorded as `what`           *)
Statement(from, to, t, c, what) ==
    /\ pc = from
    /\ pc' = to
    /\ Commit(t, c)
    /\ trace' = Append(trace, what)
    /\ UNCHANGED << magic, mboot_info, interrupts, ncalls, lib >>

Kprintf(from, to, format) ==
    Statement(from, to, kprintf(Cur, format),
              [ NoCall EXCEPT !.op = "kprintf", !.data = format, !.size = strlen(format) ],
              [ stmt |-> "kprintf", arg |-> format ])

Setcolor(from, to, fg, bg) ==
    Statement(from, to, terminal_setcolor(Cur, vga_entry_color(fg, bg)),
              [ NoCall EXCEPT !.op = "terminal_setcolor", !.color = vga_entry_color(fg, bg) ],
              [ stmt |-> "terminal_setcolor", arg |-> << vga_entry_color(fg, bg) >> ])

Main_L208 ==
    Statement("L208", "L211", terminal_initialize(Cur),
              [ NoCall EXCEPT !.op = "terminal_initialize" ], Did("terminal_initialize"))

Main_L211 == Setcolor("L211", "L214", VGA_COLOR_LIGHT_GREEN, VGA_COLOR_BLACK)

Main_L214 == Kprintf("L214", "L215", STR_L214)

Main_L215 == Kprintf("L215", "L218", STR_L215)

(* if (magic != 0x2BADB002) *)
Main_L218 ==
    /\ pc = "L218"
    /\ pc' = IF magic # MULTIBOOT_MAGIC THEN "L219" ELSE "L227"
    /\ trace' = Append(trace, Did("check_magic"))
    /\ UNCHANGED << console, history, ncalls, lib, magic, mboot_info, interrupts >>

Main_L219 == Setcolor("L219", "L220", VGA_COLOR_LIGHT_RED, VGA_COLOR_BLACK)

Main_L220 == Kprintf("L220", "L221", STR_L220)

Main_L221 == Kprintf("L221", "L223", STR_L221)

(* kprintf("\n"); goto halt; *)
Main_L223 == Kprintf("L223", "L264", STR_L223)

Main_L227 == Setcolor("L227", "L228", VGA_COLOR_WHITE, VGA_COLOR_BLACK)

Main_L228 == Kprintf("L228", "L231", STR_L228)

Main_L231 == Kprintf("L231", "L232", STR_L231)

Main_L232 == Kprintf("L232", "L235", STR_L232)

Main_L235 ==
    Statement("L235", "L238", init_memory(Cur, mboot_info),
              [ NoCall EXCEPT !.op = "init_memory" ], Did("init_memory"))

(* variant of Main_L238: control skips the call of init_idt *)
Main_L238_skips_idt ==
    Statement("L238", "L244", init_gdt(Cur), [ NoCall EXCEPT !.op = "init_gdt" ], Did("init_gdt"))

Main_L238 ==
    Statement("L238", "L241", init_gdt(Cur), [ NoCall EXCEPT !.op = "init_gdt" ], Did("init_gdt"))

Main_L241 ==
    Statement("L241", "L244", init_idt(Cur), [ NoCall EXCEPT !.op = "init_idt" ], Did("init_idt"))

Main_L244 ==
    Statement("L244", "L247", init_interrupts(Cur),
              [ NoCall EXCEPT !.op = "init_interrupts" ], Did("init_interrupts"))

Main_L247 == Setcolor("L247", "L248", VGA_COLOR_LIGHT_GREEN, VGA_COLOR_BLACK)

Main_L248 == Kprintf("L248", "L249", STR_L248)

Main_L249 == Kprintf("L249", "L251", STR_L249)

(* terminal_setcolor(vga_entry_color(VGA_COLOR_YELLOW, VGA_COLOR_BLACK)): *)
(* enum vga_color declares no VGA_COLOR_YELLOW, so the foreground is any  *)
(* colour of the enum that a definition of the name could give it.        *)
Main_L251 ==
    \E fg \in VgaColors : Setcolor("L251", "L252", fg, VGA_COLOR_BLACK)

Main_L252 == Kprintf("L252", "L255", STR_L252)

Main_L255 == Setcolor("L255", "L256", VGA_COLOR_LIGHT_GREY, VGA_COLOR_BLACK)

(* variant of Main_L256: the idle loop is missing and control falls through *)
(* to the halt label                                                        *)
Main_L256_falls_through ==
    /\ pc = "L256"
    /\ pc' = "L264"
    /\ UNCHANGED << console, history, ncalls, lib, magic, mboot_info, interrupts, trace >>

(* while (1) { hlt }: the idle loop; nothing it can observe changes *)
Main_L256 ==
    /\ pc = "L256"
    /\ pc' = "L256"
    /\ UNCHANGED << console, history, ncalls, lib, magic, mboot_info, interrupts, trace >>

Main_L264 == Setcolor("L264", "L265", VGA_COLOR_LIGHT_RED, VGA_COLOR_BLACK)

Main_L265 == Kprintf("L265", "L268", STR_L265)

(* variant of Main_L268: the cli instruction is missing *)
Main_L268_no_cli ==
    /\ pc = "L268"
    /\ pc' = "L269"
    /\ UNCHANGED << console, history, ncalls, lib, magic, mboot_info, interrupts, trace >>

(* cli *)
Main_L268 ==
    /\ pc = "L268"
    /\ pc' = "L269"
    /\ interrupts' = FALSE
    /\ trace' = Append(trace, Did("cli"))
    /\ UNCHANGED << console, history, ncalls, lib, magic, mboot_info >>

(* while (1) { hlt }: halted *)
Main_L269 ==
    /\ pc = "L269"
    /\ pc' = "L269"
    /\ UNCHANGED << console, history, ncalls, lib, magic, mboot_info, interrupts, trace >>

BootNext ==
    \/ Main_L208 \/ Main_L211 \/ Main_L214 \/ Main_L215 \/ Main_L218
    \/ Main_L219 \/ Main_L220 \/ Main_L221 \/ Main_L223
    \/ Main_L227 \/ Main_L228 \/ Main_L231 \/ Main_L232
    \/ Main_L235 \/ Main_L238 \/ Main_L241 \/ Main_L244
    \/ Main_L247 \/ Main_L248 \/ Main_L249 \/ Main_L251 \/ Main_L252 \/ Main_L255
    \/ Main_L256
    \/ Main_L264 \/ Main_L265 \/ Main_L268 \/ Main_L269

(* one instruction stream, never suspended: the next statement is always run *)
BootSpec == BootInit /\ [][BootNext]_vars /\ WF_vars(BootNext)

(* ---------------- the library, called by anyone ---------------- *)
(* characters of the strings passed to the library: 'A', 'B' and 0xC8 (as a *)
(* signed char, -56)                                                         *)
LibChars == { 65, 66, -56 }

(* the terminated strings of at most MaxStrLen characters *)
Strings ==
    { s \o << 0 >> : s \in UNION { [ 1 .. k -> LibChars ] : k \in 0 .. MaxStrLen } }

(* the memory object strncpy's dest points into: room for MaxCount bytes    *)
(* from either offset a caller uses, each byte holding 'x'                   *)
DestOffsets == { 0, 1 }
DestMemory == Rep(MaxCount + 2, 120)

(* what a strncpy that runs past the object may leave: the number of its    *)
(* stores that took effect in the object                                     *)
Landings == { 0, 1, MaxCount + 2 }

(* counts passed as size_t n: the small ones, and SIZE_MAX for strncmp *)
Counts == 0 .. MaxCount

(* values of the int c passed to strchr: the terminator, characters as char *)
(* values, 0xC8 as an unsigned char, and a character no string holds        *)
SearchChars == { 0, 65, 66, -56, 200, 67 }

(* buffers handed to memmove: distinct bytes, and a repeated byte *)
MoveBuffers ==
    { [ k \in 1 .. MaxMove |-> (k * 37) % 256 ], [ k \in 1 .. MaxMove |-> 200 + (k % 2) ] }

(* the ints passed to itoa as value and as base *)
ItoaValues == { 0, 9, 255, 65536, 2147483647, -1, -255, -2147483647 }
ItoaBases == { -10, 0, 1, 2, 8, 10, 16, 36, 37 }

(* what a read outside the digit string may find: the terminator, '%', '1' *)
StrayChars == { 0, 37, 49 }

(* boot-information records: uint32_t fields at and between their extremes *)
FlagWords == { U32(0, 0), U32(0, 1), U32(0, 64), U32(0, 4097), U32(0, 8191),
               U32(65535, 65534), U32(65535, 65535) }
MemorySizes == { U32(0, 0), U32(0, 640), U32(1, 0), U32(32768, 0), U32(65535, 65535) }
LibBootInfos ==
    { [ flags |-> f, mem_lower |-> lo, mem_upper |-> up ] :
          f \in FlagWords, lo \in MemorySizes, up \in MemorySizes }

(* A library call is made when the caller holds no result; the call and    *)
(* what it returned are recorded in lib, and nothing else changes.          *)
Call_strncpy ==
    \E dest \in DestOffsets : \E src \in Strings : \E n \in Counts : \E landed \in Landings :
        /\ lib = NoLibCall
        /\ lib' = [ op |-> "strncpy", mem |-> DestMemory, dest |-> dest, src |-> src,
                    n |-> n, out |-> strncpy(DestMemory, dest, src, n, landed) ]
        /\ UNCHANGED << console, history, ncalls, boot >>

Call_strncmp ==
    \E str1 \in Strings : \E str2 \in Strings :
    \E n \in { SizeT(k) : k \in Counts } \cup { SIZE_MAX } :
        /\ lib = NoLibCall
        /\ lib' = [ op |-> "strncmp", str1 |-> str1, str2 |-> str2, n |-> n,
                    out |-> strncmp(str1, str2, n) ]
        /\ UNCHANGED << console, history, ncalls, boot >>

Call_strchr ==
    \E str \in Strings : \E c \in SearchChars :
        /\ lib = NoLibCall
        /\ lib' = [ op |-> "strchr", str |-> str, c |-> c, out |-> strchr(str, c) ]
        /\ UNCHANGED << console, history, ncalls, boot >>

Call_memmove ==
    \E mem \in MoveBuffers : \E dest \in 0 .. MaxMove : \E src \in 0 .. MaxMove :
    \E num \in 0 .. MaxMove :
        /\ lib = NoLibCall
        /\ dest + num <= MaxMove
        /\ src + num <= MaxMove
        /\ lib' = [ op |-> "memmove", mem |-> mem, dest |-> dest, src |-> src,
                    num |-> num, out |-> memmove(mem, dest, src, num) ]
        /\ UNCHANGED << console, history, ncalls, boot >>

Call_itoa ==
    \E value \in ItoaValues : \E base \in ItoaBases : \E stray \in StrayChars :
        /\ lib = NoLibCall
        /\ lib' = [ op |-> "itoa", value |-> value, base |-> base,
                    out |-> itoa(value, base, stray) ]
        /\ UNCHANGED << console, history, ncalls, boot >>

Call_multiboot_check_flag ==
    \E mbi \in LibBootInfos : \E bit \in 0 .. 12 :
        /\ lib = NoLibCall
        /\ lib' = [ op |-> "multiboot_check_flag", mbi |-> mbi, bit |-> bit,
                    out |-> multiboot_check_flag(mbi, MULTIBOOT_INFO(bit)), after |-> mbi ]
        /\ UNCHANGED << console, history, ncalls, boot >>

Call_multiboot_get_memory_size ==
    \E mbi \in LibBootInfos :
        /\ lib = NoLibCall
        /\ lib' = [ op |-> "multiboot_get_memory_size", mbi |-> mbi,
                    out |-> multiboot_get_memory_size(mbi), after |-> mbi ]
        /\ UNCHANGED << console, history, ncalls, boot >>

(* the caller is done with the result of the call *)
Lib_return ==
    /\ lib # NoLibCall
    /\ lib' = NoLibCall
    /\ UNCHANGED << console, history, ncalls, boot >>

LibNext ==
    \/ Call_strncpy
    \/ Call_strncmp
    \/ Call_strchr
    \/ Call_memmove
    \/ Call_itoa
    \/ Call_multiboot_check_flag
    \/ Call_multiboot_get_memory_size
    \/ Lib_return

LibSpec == Init /\ [][LibNext]_vars

(* ======================= console claims (Spec) ======================= *)
Rows == 0 .. 24
Columns == 0 .. 79

IsControl(c) == c \in { 9, 10, 13 }

PutcharCalled == call.op = "terminal_putchar"

(* the call just made is one of the console's output or colour operations *)
OutputCalled ==
    call.op \in { "terminal_putchar", "terminal_write", "terminal_writestring",
                  "terminal_setcolor" }

StoredIndices == { written[k][1] : k \in 1 .. Len(written) }

(* the stores of the last call are the only difference between the video  *)
(* memory before and after it: every cell stored to holds the entry last  *)
(* stored to it, every other cell holds what it held, where it held it     *)
OnlyStoresChanged ==
    LET touched == { i \div 80 : i \in StoredIndices }
    IN  /\ \A y \in Rows \ touched : vga_buffer[y] = pre.buf[y]
        /\ \A y \in touched : \A x \in Columns :
              (y * 80 + x) \notin StoredIndices => vga_buffer[y][x] = pre.buf[y][x]
        /\ \A k \in 1 .. Len(written) :
              (\A j \in (k + 1) .. Len(written) : written[j][1] # written[k][1])
                 => Cell(vga_buffer, written[k][1]) = written[k][2]

(* C1: after any sequence of console calls the cursor is on the grid      *)
(* (row in 0..24, column in 0..79) and every store of the last call went  *)
(* to a cell index in 0..1999.                                             *)
C1_CursorAndStoresOnGrid ==
    /\ terminal_row \in 0 .. 24
    /\ terminal_column \in 0 .. 79
    /\ \A k \in 1 .. Len(written) : written[k][1] \in 0 .. 1999

(* a write that started on the last row stored to the last cell and wrapped *)
C1_Witness ==
    /\ call.op = "terminal_write"
    /\ pre.row = 24
    /\ 1999 \in StoredIndices
    /\ terminal_row = 0
    /\ terminal_column = 0

(* C2: terminal_putchar(c) for c other than '\n', '\r', '\t' stores        *)
(* c | attribute << 8 at the cell of the pre-call cursor, then advances    *)
(* the column; reaching column 80 gives column 0 and row (row+1) mod 25.   *)
C2_PutcharStoresAndAdvances ==
    (PutcharCalled /\ ~IsControl(call.c)) =>
        /\ Cell(vga_buffer, pre.row * 80 + pre.column) = (call.c % 256) + pre.color * 256
        /\ terminal_color = pre.color
        /\ IF pre.column + 1 = 80
           THEN terminal_column = 0 /\ terminal_row = (pre.row + 1) % 25
           ELSE terminal_column = pre.column + 1 /\ terminal_row = pre.row

(* byte 0xC8 under a colour with a background, stored in the last column *)
C2_Witness ==
    /\ PutcharCalled
    /\ call.c = -56
    /\ pre.column = 79
    /\ pre.color = 207
    /\ terminal_column = 0
    /\ Cell(vga_buffer, pre.row * 80 + 79) = 200 + 207 * 256

(* C3: terminal_putchar('\n') sets the column to 0 and the row to           *)
(* (row+1) mod 25, from every reachable console state.                      *)
C3_NewlineAdvancesOneRow ==
    (PutcharCalled /\ call.c = 10) =>
        /\ terminal_column = 0
        /\ terminal_row = (pre.row + 1) % 25

(* a newline on the last row, away from column 0 *)
C3_Witness ==
    /\ PutcharCalled
    /\ call.c = 10
    /\ pre.row = 24
    /\ pre.column > 0
    /\ terminal_row = 0

(* least multiple of 8 that is >= n *)
MultipleOf8NotBelow(n) == ((n + 7) \div 8) * 8

(* least multiple of 8 that is > n *)
MultipleOf8Above(n) == ((n \div 8) + 1) * 8

(* C4 as claimed: terminal_putchar('\t') moves the column to the least     *)
(* multiple of 8 not below the current column, wrapping to column 0 of     *)
(* row (row+1) mod 25 when that is 80 or more; no cell is written.          *)
C4_TabToMultipleNotBelow ==
    (PutcharCalled /\ call.c = 9) =>
        /\ IF MultipleOf8NotBelow(pre.column) >= 80
           THEN terminal_column = 0 /\ terminal_row = (pre.row + 1) % 25
           ELSE terminal_column = MultipleOf8NotBelow(pre.column) /\ terminal_row = pre.row
        /\ vga_buffer = pre.buf
        /\ written = << >>

(* C4 amended: terminal_putchar('\t') moves the column to the least        *)
(* multiple of 8 strictly above the current column (a column that is        *)
(* already a multiple of 8 advances by 8), wrapping to column 0 of row      *)
(* (row+1) mod 25 when that is 80 or more; no cell is written.              *)
C4_TabToMultipleAbove ==
    (PutcharCalled /\ call.c = 9) =>
        /\ IF MultipleOf8Above(pre.column) >= 80
           THEN terminal_column = 0 /\ terminal_row = (pre.row + 1) % 25
           ELSE terminal_column = MultipleOf8Above(pre.column) /\ terminal_row = pre.row
        /\ vga_buffer = pre.buf
        /\ written = << >>

(* a tab from a column that is a multiple of 8 other than 0 *)
C4_Witness ==
    /\ PutcharCalled
    /\ call.c = 9
    /\ pre.column = 8
    /\ terminal_column = 16
    /\ terminal_row = pre.row

(* the last call wrote exactly 80 characters, none of them a control character *)
Wrote80Plain ==
    /\ call.op \in { "terminal_write", "terminal_writestring" }
    /\ call.size = 80
    /\ \A i \in 1 .. 80 : ~IsControl(call.data[i])

(* C5 as claimed: writing 80 consecutive non-control characters advances   *)
(* the row by exactly one (mod 25) and leaves the column at 0.              *)
C5_EightyCharsEndAtColumn0 ==
    Wrote80Plain =>
        /\ terminal_row = (pre.row + 1) % 25
        /\ terminal_column = 0

(* C5 amended: writing 80 consecutive non-control characters advances the  *)
(* row by exactly one (mod 25) and leaves the column where it was before    *)
(* the write, which is column 0 only when the write started at column 0.    *)
C5_EightyCharsKeepColumn ==
    Wrote80Plain =>
        /\ terminal_row = (pre.row + 1) % 25
        /\ terminal_column = pre.column
        /\ Len(written) = 80

(* 80 characters written from the last row, starting away from column 0 *)
C5_Witness ==
    /\ Wrote80Plain
    /\ pre.row = 24
    /\ pre.column > 0
    /\ terminal_row = 0
    /\ terminal_column = pre.column

(* the character c put at column `column` ends the line *)
WrapsLine(c, column) ==
    \/ c = 10
    \/ c = 9 /\ column >= 72
    \/ ~IsControl(c) /\ column = 79

(* C6: the console is a ring over rows and never scrolls: a character that *)
(* ends the line on row 24 puts the cursor on row 0; no call moves a cell's *)
(* content to another position; and a store to a cell (of row 0 after the   *)
(* wrap, as of any row) replaces what the cell held.                        *)
C6_RingWithoutScrolling ==
    /\ (PutcharCalled /\ pre.row = 24 /\ WrapsLine(call.c, pre.column)) =>
           (terminal_row = 0 /\ terminal_column = 0)
    /\ OutputCalled => OnlyStoresChanged

(* a write that filled row 24, wrapped, and replaced the first cell of row 0 *)
C6_Witness ==
    /\ call.op = "terminal_write"
    /\ pre.row = 24
    /\ terminal_row = 0
    /\ 0 \in StoredIndices
    /\ Cell(vga_buffer, 0) # Cell(pre.buf, 0)
    /\ \A y \in 1 .. 23 : vga_buffer[y] = pre.buf[y]

(* C7: terminal_setcolor(a) changes the current attribute to a and nothing *)
(* else (no cell, not the cursor); every cell stored by a later call        *)
(* carries attribute a, until the next terminal_setcolor or                 *)
(* terminal_initialize.                                                      *)
C7_SetcolorOnlySetsAttribute ==
    /\ call.op = "terminal_setcolor" =>
          /\ terminal_color = call.color
          /\ vga_buffer = pre.buf
          /\ terminal_row = pre.row
          /\ terminal_column = pre.column
    /\ attr_set # -1 =>
          /\ terminal_color = attr_set
          /\ \A k \in 1 .. Len(written) :
                /\ written[k][2] \div 256 = attr_set
                /\ Cell(vga_buffer, written[k][1]) \div 256 = attr_set

(* a character stored under the colour set two calls earlier, next to a    *)
(* cell that still carries another attribute                                *)
C7_Witness ==
    /\ attr_set = 207
    /\ PutcharCalled
    /\ Len(written) = 1
    /\ written[1][1] = 1
    /\ Cell(vga_buffer, 1) \div 256 = 207
    /\ Cell(vga_buffer, 0) \div 256 = 0
    /\ Cell(vga_buffer, 0) % 256 = 65

(* C8: terminal_initialize, from any console state, leaves row 0, column 0, *)
(* the attribute 0x07 (light grey on black) and a space under that          *)
(* attribute in each of the 2000 cells.                                     *)
C8_InitializeClears ==
    call.op = "terminal_initialize" =>
        /\ terminal_row = 0
        /\ terminal_column = 0
        /\ terminal_color = 7
        /\ DOMAIN vga_buffer = 0 .. 24
        /\ \A y \in 0 .. 24 :
              /\ DOMAIN vga_buffer[y] = 0 .. 79
              /\ \A x \in 0 .. 79 : vga_buffer[y][x] = 32 + 7 * 256

(* initialize called with the cursor on the last row, another colour and   *)
(* other cell contents                                                      *)
C8_Witness ==
    /\ call.op = "terminal_initialize"
    /\ pre.row = 24
    /\ pre.color = 207
    /\ pre.buf[0][8] % 256 = 98
    /\ vga_buffer[0][8] = 1824
    /\ vga_buffer[24][79] = 1824

(* ======================= boot claims (BootSpec) ======================= *)
Mismatch == magic # U32(11181, 45058)

Halted == pc = "L269"

Idle == pc = "L256"

Executed(stmt) == \E k \in 1 .. Len(trace) : trace[k].stmt = stmt

Printed(format) ==
    \E k \in 1 .. Len(trace) : trace[k].stmt = "kprintf" /\ trace[k].arg = format

InitializerRun ==
    \/ Executed("init_memory")
    \/ Executed("init_gdt")
    \/ Executed("init_idt")
    \/ Executed("init_interrupts")

(* what C9 says of every state of a run with a wrong magic *)
C9_Safe ==
    Mismatch =>
        /\ ~InitializerRun
        /\ ~Idle
        /\ Halted => (terminal_color = 12 /\ interrupts = FALSE /\ Executed("cli"))

(* C9: for every magic other than 0x2BADB002 kernel_main reaches the halt  *)
(* loop, with the attribute light red on black and interrupts disabled     *)
(* before the loop; no initializer is ever called and the idle loop is      *)
(* never reached.                                                           *)
C9_MismatchHalts ==
    /\ []C9_Safe
    /\ Mismatch ~> Halted

(* halted on magic 0xDEADBEEF, handed over with interrupts enabled or not *)
C9_Witness ==
    /\ magic = U32(57005, 48879)
    /\ Halted
    /\ terminal_color = 12
    /\ interrupts = FALSE
    /\ Printed(STR_L220)

(* the statements of the run with the right magic, in order; the colour    *)
(* set by statement 17 (kernel.c:251) is left open                         *)
MatchTrace ==
    << Did("terminal_initialize"),
       [ stmt |-> "terminal_setcolor", arg |-> << 10 >> ],
       [ stmt |-> "kprintf", arg |-> STR_L214 ],
       [ stmt |-> "kprintf", arg |-> STR_L215 ],
       Did("check_magic"),
       [ stmt |-> "terminal_setcolor", arg |-> << 15 >> ],
       [ stmt |-> "kprintf", arg |-> STR_L228 ],
       [ stmt |-> "kprintf", arg |-> STR_L231 ],
       [ stmt |-> "kprintf", arg |-> STR_L232 ],
       Did("init_memory"),
       Did("init_gdt"),
       Did("init_idt"),
       Did("init_interrupts"),
       [ stmt |-> "terminal_setcolor", arg |-> << 10 >> ],
       [ stmt |-> "kprintf", arg |-> STR_L248 ],
       [ stmt |-> "kprintf", arg |-> STR_L249 ],
       [ stmt |-> "terminal_setcolor", arg |-> << >> ],
       [ stmt |-> "kprintf", arg |-> STR_L252 ],
       [ stmt |-> "terminal_setcolor", arg |-> << 7 >> ] >>

(* the statements of the error path: kernel.c:219-224 and 264-271 *)
ErrorPath == { "L219", "L220", "L221", "L223", "L264", "L265", "L268", "L269" }

(* what C10 says of every state of a run with the right magic *)
C10_Safe ==
    ~Mismatch =>
        /\ Len(trace) <= Len(MatchTrace)
        /\ \A k \in 1 .. Len(trace) :
              IF k = 17
              THEN trace[k].stmt = "terminal_setcolor" /\ Len(trace[k].arg) = 1
              ELSE trace[k] = MatchTrace[k]
        /\ Idle => Len(trace) = Len(MatchTrace)
        /\ pc \notin ErrorPath
        /\ ~Executed("cli")
        /\ ~Printed(STR_L265)
        /\ ~Printed(STR_L220)

(* C10: with magic 0x2BADB002 kernel_main runs, in this order and once     *)
(* each: terminal_initialize (before any other console operation), the      *)
(* banner, the confirmation, init_memory, init_gdt, init_idt,               *)
(* init_interrupts, the completion banners; then it enters the idle loop;   *)
(* the error colour, "System halted." and cli never happen.                 *)
C10_MatchRunsInitializersInOrder ==
    /\ []C10_Safe
    /\ (~Mismatch) ~> Idle

(* the idle loop reached after all four initializers *)
C10_Witness ==
    /\ ~Mismatch
    /\ Idle
    /\ Len(trace) = 19
    /\ Executed("init_memory")
    /\ Executed("init_interrupts")
    /\ mboot_info.flags % 2 = 1

(* ---------------- C11: the phases of kernel_main ---------------- *)
(* The phase the statement at line p belongs to.  HALTED and IDLE are the   *)
(* two loops, kernel.c:256-258 and 269-271; the report of the mismatch and  *)
(* the statements of the halt label up to cli lead from VERIFYING into      *)
(* HALTED.                                                                   *)
Phase(p) ==
    IF p \in { "L208", "L211", "L214", "L215" } THEN "BOOTING"
    ELSE IF p \in { "L218", "L219", "L220", "L221", "L223", "L264", "L265", "L268" }
         THEN "VERIFYING"
    ELSE IF p = "L269" THEN "HALTED"
    ELSE IF p = "L256" THEN "IDLE"
    ELSE "RUNNING_INIT"

(* BOOTING -> VERIFYING -> (HALTED | RUNNING_INIT -> IDLE) *)
PhaseOrder ==
    { << "BOOTING", "VERIFYING" >>, << "VERIFYING", "HALTED" >>,
      << "VERIFYING", "RUNNING_INIT" >>, << "RUNNING_INIT", "IDLE" >> }

Terminal == Halted \/ Idle

(* a step stays in its phase or follows the order *)
C11_PhaseStep ==
    \/ Phase(pc') = Phase(pc)
    \/ << Phase(pc), Phase(pc') >> \in PhaseOrder

(* a step taken in a terminal state stays there and leaves the console alone *)
C11_TerminalStep ==
    Terminal => /\ pc' = pc
                /\ console' = console

(* C11: every run of kernel_main follows BOOTING -> VERIFYING -> (HALTED |  *)
(* RUNNING_INIT -> IDLE); it eventually reaches exactly one of the terminal *)
(* states HALTED (iff magic is not 0x2BADB002) or IDLE, and once there it    *)
(* never leaves, never returns and never changes the console state or a     *)
(* cell again.                                                               *)
C11_PhasesEndInOneTerminalState ==
    /\ Phase(pc) = "BOOTING"
    /\ [][C11_PhaseStep /\ C11_TerminalStep]_vars
    /\ [](Halted => Mismatch)
    /\ [](Idle => ~Mismatch)
    /\ <>[](Terminal)
    /\ Mismatch ~> []Halted
    /\ (~Mismatch) ~> []Idle

(* halted after a hand-off value of 0, the report and cli behind it *)
C11_Witness ==
    /\ magic = U32(0, 0)
    /\ Halted
    /\ Printed(STR_L221)
    /\ Printed(STR_L265)
    /\ trace[Len(trace)] = Did("cli")

(* ---------------- C12, C13: what the boot prints ---------------- *)
(* the characters of a terminated string, without the terminator *)
Text(str) == SubSeq(str, 1, strlen(str))

RECURSIVE PrintedUpTo(_)
(* the text printed by the first k statements of the run *)
PrintedUpTo(k) ==
    IF k = 0 THEN << >>
    ELSE IF trace[k].stmt = "kprintf" THEN PrintedUpTo(k - 1) \o Text(trace[k].arg)
    ELSE PrintedUpTo(k - 1)

(* everything kernel_main has printed with kprintf so far *)
PrintedText == PrintedUpTo(Len(trace))

(* sub occurs in text as a run of consecutive characters *)
Contains(text, sub) ==
    \E k \in 0 .. (Len(text) - Len(sub)) : SubSeq(text, k + 1, k + Len(sub)) = sub

(* the value rendered in hexadecimal, in either case of the letters *)
ContainsHex(text, value) ==
    \/ Contains(text, Text(hex_to_string(value, TRUE)))
    \/ Contains(text, Text(hex_to_string(value, FALSE)))

(* C12: on a magic mismatch the text printed to the console contains both  *)
(* the expected value and the received magic in hexadecimal (for magic      *)
(* 0xDEADBEEF: "0x2BADB002" and "0xDEADBEEF"), and the console ends in the  *)
(* error colour in the halted state.                                        *)
C12_MismatchPrintsBothValues ==
    (Mismatch /\ Halted) =>
        /\ ContainsHex(PrintedText, MULTIBOOT_MAGIC)
        /\ ContainsHex(PrintedText, magic)
        /\ terminal_color = vga_entry_color(VGA_COLOR_LIGHT_RED, VGA_COLOR_BLACK)

(* the characters init_memory stored in the cells, in the order stored *)
StoredText == [ k \in 1 .. Len(written) |-> written[k][2] % 256 ]

(* control is just behind the call of init_memory *)
AfterInitMemory == pc = "L238" /\ call.op = "init_memory"

(* C13: with magic 0x2BADB002 and flag bit 0 set, init_memory prints text  *)
(* containing the decimal total mem_lower + mem_upper in KB and its value   *)
(* in MB (640 and 65536: "66176" and "64"); with bit 0 clear it prints no    *)
(* memory field.                                                             *)
C13_MemoryTotalsPrinted ==
    AfterInitMemory =>
        IF mboot_info.flags % 2 = 1
        THEN /\ Contains(StoredText,
                         Text(utoa(mboot_info.mem_lower + mboot_info.mem_upper, 10)))
             /\ Contains(StoredText,
                         Text(utoa((mboot_info.mem_lower + mboot_info.mem_upper) \div 1024, 10)))
        ELSE /\ ~Contains(StoredText, Text(STR_L175))
             /\ ~Contains(StoredText, Text(STR_L177))

(* ======================= library claims (LibSpec) ======================= *)
Called(op) == lib.op = op

(* the smaller of two counts *)
Min(a, b) == IF a < b THEN a ELSE b

(* C14: strncpy(dest, src, n) writes exactly n bytes of dest for every      *)
(* terminated src and every n >= 0, strlen(src) >= n included: the first    *)
(* min(strlen(src), n) bytes of src, then zero bytes up to position n - 1;  *)
(* it never writes dest[n] or a byte beyond it and ends after at most n     *)
(* writes.                                                                   *)
C14_StrncpyWritesExactlyN ==
    Called("strncpy") =>
        /\ ~lib.out.overrun
        /\ lib.out.padded[1] = 0
        /\ lib.out.copied + lib.out.padded[2] = lib.n
        /\ \A i \in 0 .. (lib.n - 1) :
              lib.out.mem[lib.dest + i + 1] =
                  IF i < Min(strlen(lib.src), lib.n) THEN lib.src[i + 1] ELSE 0
        /\ \A a \in 1 .. Len(lib.mem) :
              (a <= lib.dest \/ a > lib.dest + lib.n) => lib.out.mem[a] = lib.mem[a]

(* the digits valid in base b: the first b characters of "0123...xyz" *)
ValidDigits(b) == { Digits[k] : k \in 1 .. b }

(* the value of the digit character ch *)
DigitValue(ch) == (CHOOSE k \in 1 .. Len(Digits) : Digits[k] = ch) - 1

RECURSIVE ParseDigits(_, _, _)
(* the number written by the first k digits of text in base b *)
ParseDigits(text, k, b) ==
    IF k = 0 THEN 0
    ELSE ParseDigits(text, k - 1, b) * b + DigitValue(text[k])

(* the text is a number of base b, all its characters digits of that base *)
IsNumeral(text, b) ==
    /\ Len(text) > 0
    /\ \A k \in 1 .. Len(text) : text[k] \in ValidDigits(b)

(* C15: for every int v and base b in 2..36, itoa(v, buf, b) leaves a        *)
(* terminated string of digits valid in base b, with a leading '-' exactly   *)
(* when v < 0 and b = 10, and parsing it in base b recovers v (for b other   *)
(* than 10 and negative v, up to the missing sign); for b outside 2..36 the  *)
(* string is empty.                                                          *)
C15_ItoaRoundTrip ==
    Called("itoa") =>
        LET text == Text(lib.out)
            signed == Len(text) > 0 /\ text[1] = 45
            digits == IF signed THEN SubSeq(text, 2, Len(text)) ELSE text
        IN  /\ lib.out[Len(lib.out)] = 0
            /\ IF lib.base < 2 \/ lib.base > 36 THEN text = << >>
               ELSE /\ signed <=> (lib.value < 0 /\ lib.base = 10)
                    /\ IsNumeral(digits, lib.base)
                    /\ ParseDigits(digits, Len(digits), lib.base) =
                          IF lib.value < 0 THEN -lib.value ELSE lib.value

(* the positions strncmp may compare where the strings differ: below the    *)
(* bound, and not behind the terminator of either string                     *)
DifferingPositions(a, b, n) ==
    { i \in 0 .. Min(strlen(a), strlen(b)) : Below(i, n) /\ a[i + 1] # b[i + 1] }

(* the least element of a non-empty set of positions *)
First(positions) == CHOOSE i \in positions : \A j \in positions : i <= j

(* C16: strncmp(a, b, n) returns 0 when the first n bytes hold no           *)
(* difference (n = 0 included) or both strings end equal before n bytes;    *)
(* otherwise it returns the unsigned-byte difference a[i] - b[i] at the      *)
(* first differing position i < n, i = n - 1 included.                       *)
C16_StrncmpFirstDifference ==
    Called("strncmp") =>
        LET differing == DifferingPositions(lib.str1, lib.str2, lib.n)
        IN  IF differing = { } THEN lib.out = 0
            ELSE lib.out = U8(lib.str1[First(differing) + 1])
                           - U8(lib.str2[First(differing) + 1])

(* "AB" against "A\xC8" with n = 2: the difference sits at the last position *)
(* the bound allows                                                          *)
C16_Witness ==
    /\ Called("strncmp")
    /\ lib.str1 = << 65, 66, 0 >>
    /\ lib.str2 = << 65, -56, 0 >>
    /\ lib.n = SizeT(2)
    /\ lib.out = 66 - 200

(* the bytes src[0 .. num - 1] of the buffer, copied out before the call *)
Temporary(mem, src, num) == [ i \in 1 .. num |-> mem[src + i] ]

(* C17: for every buffer, every n and every pair of source and destination  *)
(* offsets in it (dest before src, after src, equal to src, overlapping or   *)
(* disjoint), memmove(dest, src, n) leaves dest[0 .. n-1] equal to the       *)
(* original src[0 .. n-1], as a copy through a temporary buffer does, and    *)
(* changes no byte outside dest[0 .. n-1].                                   *)
C17_MemmoveAsThroughTemporary ==
    Called("memmove") =>
        /\ Len(lib.out) = Len(lib.mem)
        /\ \A i \in 1 .. lib.num :
              lib.out[lib.dest + i] = Temporary(lib.mem, lib.src, lib.num)[i]
        /\ \A a \in 1 .. Len(lib.mem) :
              (a <= lib.dest \/ a > lib.dest + lib.num) => lib.out[a] = lib.mem[a]

(* three distinct bytes moved one position up, the regions overlapping in two *)
C17_Witness ==
    /\ Called("memmove")
    /\ lib.dest = lib.src + 1
    /\ lib.num = 3
    /\ lib.mem[1] # lib.mem[2]
    /\ lib.out[2] = lib.mem[1]
    /\ lib.out[4] = lib.mem[3]

(* the positions before the terminator where s holds the byte c *)
Occurrences(s, c) == { i \in 0 .. (strlen(s) - 1) : U8(s[i + 1]) = U8(c) }

(* C18: strchr(s, c) returns the position of the first occurrence of byte c *)
(* among the bytes of s before the terminator, and NULL when c does not      *)
(* occur there; for c = 0 it returns the position of the terminator.         *)
C18_StrchrFirstOccurrence ==
    Called("strchr") =>
        IF U8(lib.c) = 0 THEN lib.out = PointerAt(strlen(lib.str))
        ELSE IF Occurrences(lib.str, lib.c) = { } THEN lib.out = NullPointer
        ELSE lib.out = PointerAt(First(Occurrences(lib.str, lib.c)))

(* bit k of a uint32_t, k below 16 *)
BitIsSet(word, k) == (word[2] \div (2 ^ k)) % 2 = 1

(* x >= y on uint32_t values *)
Geq32(x, y) == x[1] > y[1] \/ (x[1] = y[1] /\ x[2] >= y[2])

(* x - y on uint32_t values, modulo 2^32 *)
Sub32(x, y) ==
    LET borrow == IF x[2] < y[2] THEN 1 ELSE 0
    IN  U32((x[1] - y[1] - borrow) % 65536, (x[2] - y[2]) % 65536)

(* what both halves of C19 say of multiboot_check_flag *)
C19_FlagPart ==
    Called("multiboot_check_flag") =>
        /\ lib.out <=> BitIsSet(lib.mbi.flags, lib.bit)
        /\ lib.after = lib.mbi

ChangedCells ==
    { << y, x >> \in { y \in Rows : vga_buffer[y] # pre.buf[y] } \X Columns :
          vga_buffer[y][x] # pre.buf[y][x] }

(* C20: a terminal_putchar call changes at most one cell: a non-control     *)
(* byte changes only the cell at the pre-call (row, column), '\n', '\r' and *)
(* '\t' change no cell, '\r' sets the column to 0 and leaves the row, and    *)
(* no call changes the current attribute.                                    *)
C20_PutcharFrame ==
    PutcharCalled =>
        /\ Cardinality(ChangedCells) <= 1
        /\ ~IsControl(call.c) => ChangedCells \subseteq { << pre.row, pre.column >> }
        /\ IsControl(call.c) => ChangedCells = { }
        /\ call.c = 13 => (terminal_column = 0 /\ terminal_row = pre.row)
        /\ terminal_color = pre.color

(* a carriage return away from the first row and the first column: the      *)
(* cursor goes to column 0 of the same row and no cell changes               *)
C20_Witness ==
    /\ PutcharCalled
    /\ call.c = 13
    /\ pre.row > 0
    /\ pre.column > 0
    /\ terminal_row = pre.row
    /\ terminal_column = 0
    /\ vga_buffer = pre.buf

(* ======================= C21 (BootSpec) ======================= *)
(* the cell terminal_initialize leaves everywhere: a space, light grey on black *)
BlankCell == vga_entry(32, vga_entry_color(VGA_COLOR_LIGHT_GREY, VGA_COLOR_BLACK))

(* the first line of the banner, kernel.c:214, as it is stored on row 0 under *)
(* light green on black                                                       *)
BannerOnRow0 ==
    \A k \in 1 .. (strlen(STR_L214) - 1) :
        vga_buffer[0][k - 1] =
            vga_entry(STR_L214[k], vga_entry_color(VGA_COLOR_LIGHT_GREEN, VGA_COLOR_BLACK))

(* the row the cursor ends on: 21 (match, bit 0 set), 20 (match, bit 0 clear), *)
(* 6 (mismatch)                                                               *)
FinalRow ==
    IF Mismatch THEN 6 ELSE IF mboot_info.flags % 2 = 1 THEN 21 ELSE 20

(* what C21 says of the states of a run *)
C21_Safe ==
    /\ pc # "L208" =>
          \A k \in 1 .. Len(written) : (written[k][1] % VGA_WIDTH) < VGA_WIDTH - 1
    /\ (Halted \/ Idle) =>
          /\ BannerOnRow0
          /\ terminal_column = 0
          /\ terminal_row = FinalRow

(* what C21 says of the steps of a run after terminal_initialize: the row     *)
(* never decreases, and each store goes to a cell that no earlier statement   *)
(* and no earlier store of the same statement has written                     *)
C21_Step ==
    pc # "L208" =>
        /\ terminal_row' >= terminal_row
        /\ written' # written =>
              /\ \A k \in 1 .. Len(written') : Cell(vga_buffer, written'[k][1]) = BlankCell
              /\ \A k \in 1 .. (Len(written') - 1) : written'[k][1] < written'[k + 1][1]

(* C21: in every run of kernel_main the console output never wraps: no       *)
(* printed line reaches column 80 and the row never goes from 24 back to 0,   *)
(* so no cell written during boot is overwritten by later boot output and the *)
(* banner on row 0 is still there in the terminal state; the cursor ends at   *)
(* column 0 on row 21 (match, bit 0 set), 20 (match, bit 0 clear) or 6        *)
(* (mismatch).                                                                *)
C21_BootOutputNeverWraps ==
    /\ []C21_Safe
    /\ [][C21_Step]_vars

(* idle after a boot with bit 0 set: the cursor on row 21, the banner on row 0 *)
C21_Witness ==
    /\ Idle
    /\ mboot_info.flags % 2 = 1
    /\ terminal_row = 21
    /\ terminal_column = 0
    /\ BannerOnRow0

=============================================================================
